---- MODULE Spec2Model ----
(***************************************************************************)
(* Local filesystem cache: restoreCache / saveCache of                     *)
(* src/cache/local/index.ts.                                               *)
(*                                                                         *)
(* Procs are the processes (invocations of the action) that work on the   *)
(* same store root.  A process makes one call after the other; a call     *)
(* advances one step at a time, a step being the synchronous code between *)
(* two awaits, so that the calls of different processes interleave at the *)
(* awaits.  The variables indexed by process describe the process's       *)
(* current call, or its last one until it starts the next.                *)
(* The store is the directory tree under the repository cache root: a     *)
(* function from entry directory names to what the directory holds at     *)
(* <root>/<name>/<cacheFileName>.                                          *)
(***************************************************************************)
EXTENDS Integers, Sequences, FiniteSets, TLC

\* Number of processes, and number of calls they make altogether.
NumProcs == 2
MaxCalls == 3

\* checkKey: key.length > 512 is rejected.
MaxKeyLength == 512
\* restoreCache: keys.length > 10 is rejected.
MaxKeys == 10

Procs == 1..NumProcs

(***************************************************************************)
(* Keys are strings, modelled as sequences of characters.                  *)
(***************************************************************************)
Rep(ch, n) == SubSeq([i \in 1..n |-> ch], 1, n)

EmptyKey == << >>
ShortKeys == {EmptyKey, <<"a">>, <<"a", "b">>, <<"b">>}
CommaKey == <<"a", ",">>
LongestKey == Rep("a", MaxKeyLength)
TooLongKey == Rep("a", MaxKeyLength + 1)

\* The paths argument: no path, or one path.
NoPaths == << >>
SomePaths == <<"dist">>

\* The key lists [primaryKey, ...restoreKeys] of the restoreCache calls.
KeyLists ==
    {<<k>> : k \in ShortKeys}
        \cup {<<<<"a", "b">>, <<"a">>>>, <<<<"a">>, <<"b">>>>,
              <<<<"b">>, <<"a", "b">>>>, <<EmptyKey, <<"a">>>>}

\* The arguments of the saveCache calls: <<paths, key>>.
SaveInputs ==
    {<<SomePaths, k>> : k \in ShortKeys}
        \cup {<<NoPaths, <<"a">>>>, <<SomePaths, CommaKey>>}

\* The arguments of the restoreCache calls: <<paths, keys>>.
RestoreInputs ==
    {<<SomePaths, ks>> : ks \in KeyLists}
        \cup {<<NoPaths, <<<<"a">>>>>>, <<SomePaths, <<<<"a">>, CommaKey>>>>}

\* The arguments of the calls of SpecCore: saves and restores that pass the
\* validation, under two keys one of which is a prefix of the other.
CoreSaveInputs == {<<SomePaths, <<"a">>>>, <<SomePaths, <<"a", "b">>>>}
CoreRestoreInputs ==
    {<<SomePaths, <<<<"a">>>>>>, <<SomePaths, <<<<"a", "b">>, <<"a">>>>>>}

\* The arguments of the calls of SpecVal: those the validation of lines
\* 61-76 and 160-161 tells apart, at both sides of each limit.
TenKeys == Append(Rep(<<"a">>, MaxKeys - 1), <<"b">>)
ElevenKeys == Rep(<<"a">>, MaxKeys + 1)

ValSaveInputs ==
    {<<SomePaths, LongestKey>>, <<SomePaths, TooLongKey>>,
     <<NoPaths, CommaKey>>}

ValRestoreInputs ==
    {<<SomePaths, TenKeys>>, <<SomePaths, ElevenKeys>>,
     <<SomePaths, <<<<"b">>, TooLongKey>>>>,
     <<SomePaths, <<<<"b">>, CommaKey>>>>,
     <<NoPaths, ElevenKeys>>}

\* The arguments of the calls of SpecScan: a save under a key of its own,
\* and restores with a primary and a fallback key.
ScanSaveInputs == {<<SomePaths, <<"a", "c">>>>}
ScanRestoreInputs ==
    {<<SomePaths, <<<<"b">>, <<"a">>>>>>, <<SomePaths, <<<<"a">>, <<"b">>>>>>}

\* String.prototype.startsWith
StartsWith(name, key) ==
    /\ Len(key) <= Len(name)
    /\ \A i \in 1..Len(key) : name[i] = key[i]

(***************************************************************************)
(* Validation (synchronous, before any I/O).  The result names the        *)
(* ValidationError thrown, or "ok".                                        *)
(***************************************************************************)
checkPaths(paths) == IF Len(paths) = 0 THEN "paths" ELSE "ok"

checkKey(key) ==
    IF Len(key) > MaxKeyLength THEN "length"
    ELSE IF \E i \in 1..Len(key) : key[i] = "," THEN "comma"
    ELSE "ok"

\* checkKeysFrom checking the primary key only.
checkKeysPrimaryOnly(keys, i) == checkKey(keys[1])

RECURSIVE checkKeysFrom(_, _)
checkKeysFrom(keys, i) ==
    IF i > Len(keys) THEN "ok"
    ELSE IF checkKey(keys[i]) # "ok" THEN checkKey(keys[i])
    ELSE checkKeysFrom(keys, i + 1)

\* RestoreValidation rejecting ten keys already.
RestoreValidationFromTen(paths, keys) ==
    IF checkPaths(paths) # "ok" THEN checkPaths(paths)
    ELSE IF Len(keys) >= MaxKeys THEN "count"
    ELSE checkKeysFrom(keys, 1)

\* restoreCache lines 61-76
RestoreValidation(paths, keys) ==
    IF checkPaths(paths) # "ok" THEN checkPaths(paths)
    ELSE IF Len(keys) > MaxKeys THEN "count"
    ELSE checkKeysFrom(keys, 1)

\* SaveValidation with checkKey called before checkPaths.
SaveValidationKeyFirst(paths, key) ==
    IF checkKey(key) # "ok" THEN checkKey(key)
    ELSE checkPaths(paths)

\* saveCache lines 160-161
SaveValidation(paths, key) ==
    IF checkPaths(paths) # "ok" THEN checkPaths(paths)
    ELSE checkKey(key)

(***************************************************************************)
(* The store.                                                              *)
(***************************************************************************)
\* What <root>/<name>/<cacheFileName> is: a regular file, something that is
\* not a regular file, or missing from the directory.
EntryKinds == {"file", "notfile", "noarchive"}

\* data: a call's number is the content that call archived, PreData the
\* content of an archive that was in the store before the first call, NoData
\* what the working directory holds before any extraction.
PreData == MaxCalls + 1
NoData == MaxCalls + 2

Entry(kind, mtime, data, complete) ==
    [kind |-> kind, mtime |-> mtime, data |-> data, complete |-> complete]

EmptyStore == [n \in {} |-> Entry("file", 0, PreData, TRUE)]

\* A store that holds one archive, under a key of its own.
CoreStore == (<<"b">> :> Entry("file", 0, PreData, TRUE))

\* A store with two archives of one modification time, whose names start
\* alike.
TieStore ==
    (<<"a", "b">> :> Entry("file", 0, PreData, TRUE))
        @@ (<<"a", "d">> :> Entry("file", 0, PreData, TRUE))

\* A store with an entry directory that has no archive, one whose archive is
\* not a regular file, and one with an archive.
FilterStore ==
    (<<"a">> :> Entry("noarchive", 0, NoData, TRUE))
        @@ (<<"a", "b">> :> Entry("notfile", 0, NoData, TRUE))
        @@ (<<"b">> :> Entry("file", 0, PreData, TRUE))

\* Stores found by the first call.
InitStores ==
    { EmptyStore,
      CoreStore,
      (<<"a">> :> Entry("noarchive", 0, NoData, TRUE))
          @@ (<<"b">> :> Entry("file", 0, PreData, TRUE)),
      (<<"a">> :> Entry("notfile", 0, NoData, TRUE))
          @@ (<<"a", "b">> :> Entry("file", 0, PreData, TRUE)) }

VARIABLES
    store,        \* entry directory name -> entry
    clock,        \* the filesystem's time, stamped on archives
    work,         \* data of the working directory (what was last extracted)
    calls,        \* number of calls started so far
    returned1,    \* keys for which a saveCache call has returned 1
    pc,           \* process -> position in its call
    op,           \* process -> "none", "save", "restore"
    id,           \* process -> number of its call
    paths,        \* process -> paths argument
    keys,         \* process -> [primaryKey, ...restoreKeys], or [key] of a save
    before,       \* process -> returned1 as it was when its call started
    tmp,          \* process -> its temporary archive: absent, partial, complete
    matchedKey,   \* restoreCache's matchedKey
    archivePath,  \* restoreCache's archivePath: the entry directory chosen
    status,       \* the number a save returns (0: none yet)
    outcome,      \* pending, returned, undefined, ValidationError, Error
    message,      \* the error raised: which validation, or the error's name
    logged,       \* level of the message logged by the catch block
    unlinkFailed  \* saveCache's finally block has logged "Failed to delete"

vars == <<store, clock, work, calls, returned1, pc, op, id, paths, keys,
          before, tmp, matchedKey, archivePath, status, outcome, message,
          logged, unlinkFailed>>

InitFrom(stores) ==
    /\ store \in stores
    /\ clock = 1
    /\ work = NoData
    /\ calls = 0
    /\ returned1 = {}
    /\ pc = [p \in Procs |-> "idle"]
    /\ op = [p \in Procs |-> "none"]
    /\ id = [p \in Procs |-> 0]
    /\ paths = [p \in Procs |-> NoPaths]
    /\ keys = [p \in Procs |-> << >>]
    /\ before = [p \in Procs |-> {}]
    /\ tmp = [p \in Procs |-> "absent"]
    /\ matchedKey = [p \in Procs |-> EmptyKey]
    /\ archivePath = [p \in Procs |-> << >>]
    /\ status = [p \in Procs |-> 0]
    /\ outcome = [p \in Procs |-> "pending"]
    /\ message = [p \in Procs |-> "none"]
    /\ logged = [p \in Procs |-> "none"]
    /\ unlinkFailed = [p \in Procs |-> FALSE]

Init == InitFrom(InitStores)

Free(p) == pc[p] \in {"idle", "done"}

\* A call starts in a process that is in no call; of the free processes the
\* first one takes it (which process runs a call makes no difference).
CanStart(p) ==
    /\ Free(p)
    /\ \A q \in Procs : q < p => ~Free(q)
    /\ calls < MaxCalls

\* The call of p starts: its arguments, and the locals as declared.
Enter(p, o, ps, ks) ==
    /\ calls' = calls + 1
    /\ op' = [op EXCEPT ![p] = o]
    /\ id' = [id EXCEPT ![p] = calls + 1]
    /\ paths' = [paths EXCEPT ![p] = ps]
    /\ keys' = [keys EXCEPT ![p] = ks]
    /\ before' = [before EXCEPT ![p] = returned1]
    /\ tmp' = [tmp EXCEPT ![p] = "absent"]
    /\ matchedKey' = [matchedKey EXCEPT ![p] = EmptyKey]
    /\ archivePath' = [archivePath EXCEPT ![p] = << >>]
    /\ status' = [status EXCEPT ![p] = 0]
    /\ logged' = [logged EXCEPT ![p] = "none"]
    /\ unlinkFailed' = [unlinkFailed EXCEPT ![p] = FALSE]

\* The call of p ends by throwing ValidationError, or goes on to `next`.
Validated(p, verdict, next) ==
    IF verdict = "ok"
    THEN /\ pc' = [pc EXCEPT ![p] = next]
         /\ outcome' = [outcome EXCEPT ![p] = "pending"]
         /\ message' = [message EXCEPT ![p] = "none"]
    ELSE /\ pc' = [pc EXCEPT ![p] = "done"]
         /\ outcome' = [outcome EXCEPT ![p] = "ValidationError"]
         /\ message' = [message EXCEPT ![p] = verdict]

(***************************************************************************)
(* saveCache                                                               *)
(***************************************************************************)
Key(p) == keys[p][1]

\* lines 160-161: checkPaths, checkKey.
SaveStart(p, ps, k) ==
    /\ CanStart(p)
    /\ Enter(p, "save", ps, <<k>>)
    /\ Validated(p, SaveValidation(ps, k), "resolve")
    /\ UNCHANGED <<store, clock, work, returned1>>

\* What lines 78-80 and 163-179 meet: the probe of the compression method
\* fails, no path of the call exists, the temporary directory cannot be made,
\* or all is well.
SaveResolveEvents == {"probeFails", "noPaths", "tempDirFails", "ok"}
RestoreResolveEvents == {"probeFails", "ok"}

\* lines 163-179 are outside the try block: what is raised there leaves
\* saveCache as it is, an Error.
SaveResolveThrows(ev) == ev # "ok"

\* line 170 names its error "Path Validation Error: ... do(es) not exist"; it
\* is an Error all the same.
SaveResolveMessage(ev) == IF ev = "noPaths" THEN "nothingToCache" ELSE ev

SaveResolve(p, ev) ==
    /\ pc[p] = "resolve"
    /\ op[p] = "save"
    /\ IF SaveResolveThrows(ev)
       THEN /\ pc' = [pc EXCEPT ![p] = "done"]
            /\ outcome' = [outcome EXCEPT ![p] = "Error"]
            /\ message' = [message EXCEPT ![p] = SaveResolveMessage(ev)]
       ELSE /\ pc' = [pc EXCEPT ![p] = "tar"]
            /\ UNCHANGED <<outcome, message>>
    /\ UNCHANGED <<store, clock, work, calls, returned1, op, id, paths, keys,
                   before, tmp, matchedKey, archivePath, status, logged,
                   unlinkFailed>>

\* SaveCatch without the branch for ReserveCacheError.
SaveCatchNoReserveBranch(name) ==
    IF name = "ValidationError"
    THEN [rethrow |-> TRUE, status |-> 0, level |-> "none"]
    ELSE [rethrow |-> FALSE, status |-> -1, level |-> "warning"]

\* SaveCatch throwing on every error that has a name of its own.
SaveCatchRethrowsNamed(name) ==
    IF name \in {"ValidationError", "ReserveCacheError"}
    THEN [rethrow |-> TRUE, status |-> 0, level |-> "none"]
    ELSE [rethrow |-> FALSE, status |-> -1, level |-> "warning"]

\* SaveCatch falling through to the success status after the warning.
SaveCatchReturnsOne(name) ==
    IF name = "ValidationError"
    THEN [rethrow |-> TRUE, status |-> 0, level |-> "none"]
    ELSE IF name = "ReserveCacheError"
    THEN [rethrow |-> FALSE, status |-> -1, level |-> "info"]
    ELSE [rethrow |-> FALSE, status |-> 1, level |-> "warning"]

\* The catch block of saveCache, lines 201-210, by the name of the error:
\* whether it is thrown on, the status returned, the level of the log message.
SaveCatch(name) ==
    IF name = "ValidationError"
    THEN [rethrow |-> TRUE, status |-> 0, level |-> "none"]
    ELSE IF name = "ReserveCacheError"
    THEN [rethrow |-> FALSE, status |-> -1, level |-> "info"]
    ELSE [rethrow |-> FALSE, status |-> -1, level |-> "warning"]

\* The try block has raised `name`: the catch block runs, the finally block
\* (SaveCleanup) is still to come.
SaveRaise(p, name) ==
    /\ status' = [status EXCEPT ![p] = SaveCatch(name).status]
    /\ logged' = [logged EXCEPT ![p] = SaveCatch(name).level]
    /\ message' = [message EXCEPT ![p] = name]
    /\ outcome' = [outcome EXCEPT ![p] =
            IF SaveCatch(name).rethrow THEN name ELSE "pending"]
    /\ pc' = [pc EXCEPT ![p] = "cleanup"]

\* line 184: createTar starts writing the archive into the temporary folder.
SaveTarBegin(p) ==
    /\ pc[p] = "tar"
    /\ op[p] = "save"
    /\ pc' = [pc EXCEPT ![p] = "tarring"]
    /\ tmp' = [tmp EXCEPT ![p] = "partial"]
    /\ UNCHANGED <<store, clock, work, calls, returned1, op, id, paths, keys,
                   before, matchedKey, archivePath, status, outcome, message,
                   logged, unlinkFailed>>

\* lines 184-189: createTar ends, with the archive complete or with an error.
SaveTarEnd(p, ok) ==
    /\ pc[p] = "tarring"
    /\ op[p] = "save"
    /\ IF ok
       THEN /\ tmp' = [tmp EXCEPT ![p] = "complete"]
            /\ pc' = [pc EXCEPT ![p] = "store"]
            /\ UNCHANGED <<status, outcome, message, logged>>
       ELSE /\ SaveRaise(p, "Error")
            /\ UNCHANGED tmp
    /\ UNCHANGED <<store, clock, work, calls, returned1, op, id, paths, keys,
                   before, matchedKey, archivePath, unlinkFailed>>

\* utils.storeCacheFile(archivePath, cacheStorePath), the commit: the entry
\* directory <root>/<key> receives the archive in one step, unless it already
\* holds content (ReserveCacheError) or the filesystem fails (Error).
StoreEvents == {"ok", "ioFails"}

storeCacheFile(s, key, ev) ==
    IF key \in DOMAIN s THEN "ReserveCacheError"
    ELSE IF ev = "ioFails" THEN "Error"
    ELSE "ok"

\* CommitReady with createTar not awaited.
CommitReadyNoAwait(p) == pc[p] \in {"tarring", "store"}

\* lines 184-198: storeCacheFile is called once createTar has been awaited.
CommitReady(p) == pc[p] = "store"

\* lines 193-200
SaveStore(p, ev) ==
    /\ CommitReady(p)
    /\ op[p] = "save"
    /\ IF storeCacheFile(store, Key(p), ev) = "ok"
       THEN /\ store' =
                   (Key(p) :> Entry("file", clock, id[p], tmp[p] = "complete"))
                       @@ store
            /\ clock' = clock + 1
            /\ status' = [status EXCEPT ![p] = 1]
            /\ pc' = [pc EXCEPT ![p] = "cleanup"]
            /\ UNCHANGED <<outcome, message, logged>>
       ELSE /\ SaveRaise(p, storeCacheFile(store, Key(p), ev))
            /\ UNCHANGED <<store, clock>>
    /\ UNCHANGED <<work, calls, returned1, op, id, paths, keys, before, tmp,
                   matchedKey, archivePath, unlinkFailed>>

\* UnlinkCatch throwing the error on.
UnlinkCatchRethrows == [rethrow |-> TRUE, level |-> "debug"]

\* lines 215-217: the catch block around unlinkFile logs at debug level and
\* throws nothing.
UnlinkCatch == [rethrow |-> FALSE, level |-> "debug"]

\* lines 211-218: the finally block, then the return of the try or catch
\* block takes effect; a failure of unlinkFile is only logged.
SaveCleanup(p, ok) ==
    /\ pc[p] = "cleanup"
    /\ op[p] = "save"
    /\ tmp' = [tmp EXCEPT ![p] = IF ok THEN "absent" ELSE @]
    /\ unlinkFailed' = [unlinkFailed EXCEPT ![p] = ~ok]
    /\ pc' = [pc EXCEPT ![p] = "done"]
    /\ outcome' = [outcome EXCEPT ![p] =
            IF ~ok /\ UnlinkCatch.rethrow THEN "Error"
            ELSE IF @ = "pending" THEN "returned" ELSE @]
    /\ returned1' = IF outcome'[p] = "returned" /\ status[p] = 1
                    THEN returned1 \cup {Key(p)} ELSE returned1
    /\ UNCHANGED <<store, clock, work, calls, op, id, paths, keys, before,
                   matchedKey, archivePath, status, message, logged>>

(***************************************************************************)
(* restoreCache                                                            *)
(***************************************************************************)
\* lines 61-76: checkPaths, the number of keys, checkKey of every key.
RestoreStart(p, ps, ks) ==
    /\ CanStart(p)
    /\ Enter(p, "restore", ps, ks)
    /\ Validated(p, RestoreValidation(ps, ks), "resolve")
    /\ UNCHANGED <<store, clock, work, returned1>>

\* lines 78-80 are outside the try block: what is raised there leaves
\* restoreCache as it is, an Error.
RestoreResolveThrows(ev) == ev # "ok"

RestoreResolve(p, ev) ==
    /\ pc[p] = "resolve"
    /\ op[p] = "restore"
    /\ IF RestoreResolveThrows(ev)
       THEN /\ pc' = [pc EXCEPT ![p] = "done"]
            /\ outcome' = [outcome EXCEPT ![p] = "Error"]
            /\ message' = [message EXCEPT ![p] = ev]
       ELSE /\ pc' = [pc EXCEPT ![p] = "scan"]
            /\ UNCHANGED <<outcome, message>>
    /\ UNCHANGED <<store, clock, work, calls, returned1, op, id, paths, keys,
                   before, tmp, matchedKey, archivePath, status, logged,
                   unlinkFailed>>

\* line 84: fs.readdirSync(repoCachePath), the names under the store root.
\* An archive saved under the empty key lies in the root itself, and the
\* listing names that file.
CacheFileName == <<"cache.tzst">>

readdirSync(s) ==
    {IF n = EmptyKey THEN CacheFileName ELSE n : n \in DOMAIN s}

\* line 89: fs.existsSync(<root>/<dir>/<cacheFileName>)
existsSync(s, dir) ==
    /\ dir \in DOMAIN s
    /\ dir # EmptyKey
    /\ s[dir].kind # "noarchive"

\* line 94: stats.isFile()
isFile(s, dir) == s[dir].kind = "file"

\* matchedCaches without the filter on stats.isFile().
matchedCachesNoIsFile(s, key) ==
    {dir \in readdirSync(s) :
        /\ StartsWith(dir, key)
        /\ existsSync(s, dir)}

\* lines 86-94: the entry directories that survive the three filters.
matchedCaches(s, key) ==
    {dir \in readdirSync(s) :
        /\ StartsWith(dir, key)
        /\ existsSync(s, dir)
        /\ isFile(s, dir)}

\* cacheFileInfo with the sort ascending: a.mtime - b.mtime.
cacheFileInfoOldest(s, key) ==
    {dir \in matchedCaches(s, key) :
        \A other \in matchedCaches(s, key) : s[dir].mtime <= s[other].mtime}

\* lines 95-98: sorted by descending mtime, the first one.  Among archives of
\* the same mtime the order of the listing decides, which is not specified:
\* any of them may be the first.
cacheFileInfo(s, key) ==
    {dir \in matchedCaches(s, key) :
        \A other \in matchedCaches(s, key) : s[other].mtime <= s[dir].mtime}

\* scanKeys without the break: the last key that has a match wins.
RECURSIVE scanKeysNoBreak(_, _, _)
scanKeysNoBreak(s, ks, i) ==
    IF i > Len(ks)
    THEN [matchedKey |-> EmptyKey, archivePaths |-> {<< >>}]
    ELSE IF /\ scanKeysNoBreak(s, ks, i + 1).matchedKey = EmptyKey
            /\ cacheFileInfo(s, ks[i]) # {}
    THEN [matchedKey |-> ks[i], archivePaths |-> cacheFileInfo(s, ks[i])]
    ELSE scanKeysNoBreak(s, ks, i + 1)

\* scanKeys with matchedKey set to the name of the entry found.
RECURSIVE scanKeysEntryName(_, _, _)
scanKeysEntryName(s, ks, i) ==
    IF i > Len(ks)
    THEN [matchedKey |-> EmptyKey, archivePaths |-> {<< >>}]
    ELSE IF cacheFileInfo(s, ks[i]) # {}
    THEN [matchedKey |-> CHOOSE dir \in cacheFileInfo(s, ks[i]) : TRUE,
          archivePaths |-> cacheFileInfo(s, ks[i])]
    ELSE scanKeysEntryName(s, ks, i + 1)

\* lines 85-104: the loop over the keys, from the i-th on.  The result is
\* matchedKey and the entries archivePath may name; both are "" when no key
\* matched.
RECURSIVE scanKeys(_, _, _)
scanKeys(s, ks, i) ==
    IF i > Len(ks)
    THEN [matchedKey |-> EmptyKey, archivePaths |-> {<< >>}]
    ELSE IF cacheFileInfo(s, ks[i]) # {}
    THEN [matchedKey |-> ks[i], archivePaths |-> cacheFileInfo(s, ks[i])]
    ELSE scanKeys(s, ks, i + 1)

\* notFound testing for undefined, which matchedKey never is.
notFoundNever(key) == FALSE

\* lines 105-108: the test that no cache was found.
notFound(key) == key = EmptyKey

\* The catch block of restoreCache, lines 127-134, by the name of the error.
RestoreCatch(name) ==
    IF name = "ValidationError"
    THEN [rethrow |-> TRUE, level |-> "none"]
    ELSE [rethrow |-> FALSE, level |-> "warning"]

\* The try block has raised `name`: the catch block runs, and line 144
\* returns undefined.
RestoreRaise(p, name) ==
    /\ logged' = [logged EXCEPT ![p] = RestoreCatch(name).level]
    /\ message' = [message EXCEPT ![p] = name]
    /\ outcome' = [outcome EXCEPT ![p] =
            IF RestoreCatch(name).rethrow THEN name ELSE "undefined"]
    /\ pc' = [pc EXCEPT ![p] = "done"]

\* lines 82-108: the listing and the loop, all synchronous.
RestoreScan(p, ok) ==
    /\ pc[p] = "scan"
    /\ op[p] = "restore"
    /\ IF ok
       THEN \E dir \in scanKeys(store, keys[p], 1).archivePaths :
               /\ matchedKey' = [matchedKey EXCEPT ![p] =
                       scanKeys(store, keys[p], 1).matchedKey]
               /\ archivePath' = [archivePath EXCEPT ![p] = dir]
               /\ IF notFound(scanKeys(store, keys[p], 1).matchedKey)
                  THEN /\ pc' = [pc EXCEPT ![p] = "done"]
                       /\ outcome' = [outcome EXCEPT ![p] = "undefined"]
                  ELSE /\ pc' = [pc EXCEPT ![p] = "extract"]
                       /\ UNCHANGED outcome
               /\ UNCHANGED <<message, logged>>
       ELSE /\ RestoreRaise(p, "Error")
            /\ UNCHANGED <<matchedKey, archivePath>>
    /\ UNCHANGED <<store, clock, work, calls, returned1, op, id, paths, keys,
                   before, tmp, status, unlinkFailed>>

\* RestoreFinally with the unlinkFile of lines 138-141 not commented out.
RestoreFinallyUnlinks(s, dir) == [n \in DOMAIN s \ {dir} |-> s[n]]

\* lines 135-142: the finally block of restoreCache is empty (the deletion of
\* the archive is commented out); the store is left as it is.
RestoreFinally(s, dir) == s

\* lines 110-126: the size of the archive, extractTar, return matchedKey;
\* then the finally block.  An archive that is not complete does not extract.
RestoreExtract(p, ok) ==
    /\ pc[p] = "extract"
    /\ op[p] = "restore"
    /\ IF /\ ok
          /\ archivePath[p] \in DOMAIN store
          /\ store[archivePath[p]].complete
       THEN /\ work' = store[archivePath[p]].data
            /\ outcome' = [outcome EXCEPT ![p] = "returned"]
            /\ pc' = [pc EXCEPT ![p] = "done"]
            /\ UNCHANGED <<message, logged>>
       ELSE /\ RestoreRaise(p, "Error")
            /\ UNCHANGED work
    /\ store' = RestoreFinally(store, archivePath[p])
    /\ UNCHANGED <<clock, calls, returned1, op, id, paths, keys, before, tmp,
                   matchedKey, archivePath, status, unlinkFailed>>

\* The steps of the calls whose arguments are drawn from the given sets.
Step(saveInputs, restoreInputs) ==
    \/ \E p \in Procs, a \in saveInputs : SaveStart(p, a[1], a[2])
    \/ \E p \in Procs, ev \in SaveResolveEvents : SaveResolve(p, ev)
    \/ \E p \in Procs : SaveTarBegin(p)
    \/ \E p \in Procs, ok \in BOOLEAN : SaveTarEnd(p, ok)
    \/ \E p \in Procs, ev \in StoreEvents : SaveStore(p, ev)
    \/ \E p \in Procs, ok \in BOOLEAN : SaveCleanup(p, ok)
    \/ \E p \in Procs, a \in restoreInputs : RestoreStart(p, a[1], a[2])
    \/ \E p \in Procs, ev \in RestoreResolveEvents : RestoreResolve(p, ev)
    \/ \E p \in Procs, ok \in BOOLEAN : RestoreScan(p, ok)
    \/ \E p \in Procs, ok \in BOOLEAN : RestoreExtract(p, ok)

Next == Step(SaveInputs, RestoreInputs)

Spec == Init /\ [][Next]_vars

\* The same calls with arguments that pass the validation, on CoreStore.
InitCore == InitFrom({CoreStore})

NextCore == Step(CoreSaveInputs, CoreRestoreInputs)

SpecCore == InitCore /\ [][NextCore]_vars

\* The calls that the validation accepts or rejects, on CoreStore.
InitVal == InitFrom({CoreStore})

NextVal == Step(ValSaveInputs, ValRestoreInputs)

SpecVal == InitVal /\ [][NextVal]_vars

\* The calls that scan stores with several candidates and with entries that
\* are no candidates.
InitScan == InitFrom({TieStore, FilterStore})

NextScan == Step(ScanSaveInputs, ScanRestoreInputs)

SpecScan == InitScan /\ [][NextScan]_vars

(***************************************************************************)
(* Properties                                                              *)
(***************************************************************************)
IsRestore(p) == op[p] = "restore"
IsSave(p) == op[p] = "save"

\* The call of p takes its scan step, and the listing does not fail.
Scans(p) ==
    /\ IsRestore(p)
    /\ pc[p] = "scan"
    /\ pc'[p] # "scan"
    /\ logged'[p] # "warning"

\* The call of p takes its extract step, and nothing fails in it.
Extracts(p) ==
    /\ IsRestore(p)
    /\ pc[p] = "extract"
    /\ pc'[p] # "extract"
    /\ logged'[p] # "warning"

\* The i-th key of p is the first one in list order that has a candidate.
FirstWithCandidate(p, i) ==
    /\ matchedCaches(store, keys[p][i]) # {}
    /\ \A j \in 1..(i - 1) : matchedCaches(store, keys[p][j]) = {}

NoCandidate(p) ==
    \A i \in 1..Len(keys[p]) : matchedCaches(store, keys[p][i]) = {}

\* No other process has made a call: the calls so far ran one after another.
Alone(p) == \A q \in Procs \ {p} : pc[q] = "idle"

\* C1: key priority over recency.  When restoreCache scans the store, the
\* archive it chooses belongs to the candidate set of the first key in list
\* order that has any candidate, whatever the modification times of the
\* candidates of later keys; and the archive extracted is the chosen one.
C1_KeyPriority ==
    [][\A p \in Procs :
        /\ Scans(p) =>
             \A i \in 1..Len(keys[p]) :
                 FirstWithCandidate(p, i) =>
                     archivePath'[p] \in matchedCaches(store, keys[p][i])
        /\ Extracts(p) =>
             /\ archivePath[p] \in DOMAIN store
             /\ work' = store[archivePath[p]].data
      ]_vars

\* A restore has extracted a candidate of its primary key although its
\* fallback key has a candidate of a strictly later modification time.
C1_Witness ==
    \E p \in Procs :
        /\ IsRestore(p) /\ Alone(p)
        /\ pc[p] = "done" /\ outcome[p] = "returned"
        /\ Len(keys[p]) = 2
        /\ archivePath[p] \in matchedCaches(store, keys[p][1])
        /\ \E d \in matchedCaches(store, keys[p][2]) :
              store[d].mtime > store[archivePath[p]].mtime

\* C2: save-then-restore round trip, content.  A restoreCache whose primary
\* key K had been saved with status 1 before the call started, and which
\* extracts an archive, extracts the archive saved under K.
C2_RoundTripContent ==
    \A p \in Procs :
        (/\ IsRestore(p)
         /\ pc[p] = "done"
         /\ outcome[p] = "returned"
         /\ keys[p][1] \in before[p])
            => archivePath[p] = keys[p][1]

\* C3: save-then-restore round trip, hit.  A restoreCache whose primary key K
\* had been saved with status 1 before the call started, and in which nothing
\* fails, returns K.
C3_RoundTripHit ==
    \A p \in Procs :
        (/\ IsRestore(p)
         /\ pc[p] = "done"
         /\ message[p] = "none"
         /\ keys[p][1] \in before[p])
            => (outcome[p] = "returned" /\ matchedKey[p] = keys[p][1])

C5_FirstMatchingKey ==
    [][\A p \in Procs :
        /\ Scans(p) =>
             /\ \A i \in 1..Len(keys[p]) :
                   FirstWithCandidate(p, i) =>
                       (pc'[p] = "extract" /\ matchedKey'[p] = keys[p][i])
             /\ outcome'[p] = "undefined" => NoCandidate(p)
        /\ Extracts(p) =>
             (outcome'[p] = "returned" /\ matchedKey'[p] = matchedKey[p])
      ]_vars

\* C6: restoring when no entry matches any key.  A scan that finds no
\* candidate for any key ends the call with undefined and without an error,
\* and no step of restoreCache up to and including the scan changes the store,
\* the working directory or a temporary archive.
C6_NoMatchUntouched ==
    [][\A p \in Procs :
        /\ (id'[p] # id[p] /\ op'[p] = "restore") =>
             (store' = store /\ work' = work)
        /\ (IsRestore(p) /\ pc[p] \in {"resolve", "scan"}
                /\ pc'[p] # pc[p]) =>
             (store' = store /\ work' = work /\ tmp' = tmp)
        /\ (Scans(p) /\ NoCandidate(p)) =>
             /\ pc'[p] = "done"
             /\ outcome'[p] = "undefined"
             /\ message'[p] = "none"
             /\ logged'[p] = "none"
      ]_vars

\* A restore has returned undefined, without an error, from a store that
\* holds entries none of which is a candidate of its keys; the working
\* directory is as it was.
C6_Witness ==
    \E p \in Procs :
        /\ IsRestore(p) /\ Alone(p)
        /\ pc[p] = "done" /\ outcome[p] = "undefined" /\ logged[p] = "none"
        /\ DOMAIN store # {}
        /\ NoCandidate(p)
        /\ work = NoData

\* C7: the error boundary of saveCache.  A saveCache call in which the probe
\* of the compression method (step 2) does not fail ends by returning status
\* 1 or -1, or by throwing ValidationError, never by throwing another error:
\* also when no path of the call exists, and when the temporary directory
\* cannot be made.
C7_SaveThrowsOnlyValidation ==
    \A p \in Procs :
        (IsSave(p) /\ pc[p] = "done" /\ message[p] # "probeFails") =>
            \/ outcome[p] = "ValidationError"
            \/ (outcome[p] = "returned" /\ status[p] \in {1, -1})

\* C8: the error boundary of restoreCache.  A restoreCache call ends by
\* returning a key or undefined, or by throwing ValidationError, never by
\* throwing another error.
C8_RestoreThrowsOnlyValidation ==
    \A p \in Procs :
        (IsRestore(p) /\ pc[p] = "done") =>
            outcome[p] \in {"ValidationError", "returned", "undefined"}

C10_NoPartialEntry ==
    /\ \A n \in DOMAIN store : store[n].complete
    /\ \A p \in Procs :
          (IsRestore(p) /\ pc[p] = "extract") =>
              /\ archivePath[p] \in DOMAIN store
              /\ store[archivePath[p]].kind = "file"
              /\ store[archivePath[p]].complete

\* A restore has chosen the archive of an earlier save while another save,
\* under a key the restore's primary key is a prefix of, has a partly written
\* archive in its temporary folder.
C10_Witness ==
    \E p \in Procs, q \in Procs :
        /\ IsRestore(p) /\ pc[p] = "extract"
        /\ store[archivePath[p]].data \in 1..MaxCalls
        /\ IsSave(q) /\ pc[q] = "tarring" /\ tmp[q] = "partial"
        /\ StartsWith(Key(q), keys[p][1])

\* The step is the start of a call of p.
Starts(p) == id'[p] # id[p]

\* The step leaves the store, the working directory and the temporary
\* archives of the other processes as they are, and the call of p has made
\* no temporary archive.
NoIO(p) ==
    /\ store' = store
    /\ work' = work
    /\ tmp'[p] = "absent"
    /\ \A q \in Procs \ {p} : tmp'[q] = tmp[q]

\* C11: key-count validation precedes I/O.  A restoreCache call with paths
\* and more than 10 keys ends in its first, synchronous step by throwing
\* ValidationError for the number of keys, with no I/O done: no restoreCache
\* call with more than 10 keys is ever at the probe of the compression
\* method, at the listing of the store or at the extraction.  A call with
\* paths and exactly 10 keys, each of them valid, goes on to the probe.
C11_KeyCountFirst ==
    [][\A p \in Procs :
        /\ (Starts(p) /\ op'[p] = "restore" /\ Len(paths'[p]) > 0) =>
              /\ Len(keys'[p]) > MaxKeys =>
                    /\ pc'[p] = "done"
                    /\ outcome'[p] = "ValidationError"
                    /\ message'[p] = "count"
                    /\ NoIO(p)
              /\ (/\ Len(keys'[p]) = MaxKeys
                  /\ \A i \in 1..MaxKeys : checkKey(keys'[p][i]) = "ok") =>
                    (pc'[p] = "resolve" /\ outcome'[p] = "pending")
        /\ (op'[p] = "restore" /\ pc'[p] \in {"resolve", "scan", "extract"}) =>
              Len(keys'[p]) <= MaxKeys
      ]_vars

\* A restore with 11 keys has thrown ValidationError, and a restore with 10
\* keys has matched its tenth key and is about to extract.
C11_Witness ==
    \E p \in Procs, q \in Procs :
        /\ IsRestore(p) /\ Len(paths[p]) > 0 /\ Len(keys[p]) = MaxKeys + 1
        /\ pc[p] = "done" /\ outcome[p] = "ValidationError"
        /\ IsRestore(q) /\ Len(keys[q]) = MaxKeys
        /\ pc[q] = "extract" /\ matchedKey[q] = keys[q][MaxKeys]

\* The key is longer than 512 characters or contains a comma.
BadKey(k) == Len(k) > MaxKeyLength \/ \E i \in 1..Len(k) : k[i] = ","

HasBadKey(ks) == \E i \in 1..Len(ks) : BadKey(ks[i])

\* C12: key syntax validation.  A saveCache call whose key, and a
\* restoreCache call one of whose keys (the primary or any fallback), is
\* longer than 512 characters or contains a comma ends in its first,
\* synchronous step by throwing ValidationError, with no I/O done, and no
\* call with such a key is ever past the validation.  A call with paths, at
\* most 10 keys and no such key (keys of exactly 512 characters included)
\* goes on.
C12_KeySyntax ==
    [][\A p \in Procs :
        /\ Starts(p) =>
              /\ HasBadKey(keys'[p]) =>
                    /\ pc'[p] = "done"
                    /\ outcome'[p] = "ValidationError"
                    /\ NoIO(p)
              /\ (/\ Len(paths'[p]) > 0
                  /\ Len(keys'[p]) <= MaxKeys
                  /\ ~HasBadKey(keys'[p])) =>
                    (pc'[p] = "resolve" /\ outcome'[p] = "pending")
        /\ pc'[p] \notin {"idle", "done"} => ~HasBadKey(keys'[p])
      ]_vars

\* A restore whose primary key is valid and whose fallback key has 513
\* characters has thrown ValidationError, and a save under a key of 512
\* characters has committed its archive.
C12_Witness ==
    \E p \in Procs, q \in Procs :
        /\ IsRestore(p) /\ Len(paths[p]) > 0 /\ Len(keys[p]) = 2
        /\ ~BadKey(keys[p][1]) /\ Len(keys[p][2]) = MaxKeyLength + 1
        /\ pc[p] = "done" /\ outcome[p] = "ValidationError"
        /\ IsSave(q) /\ Len(Key(q)) = MaxKeyLength
        /\ status[q] = 1 /\ Key(q) \in DOMAIN store

\* C13: empty-paths validation.  A saveCache or restoreCache call with an
\* empty paths argument ends in its first, synchronous step by throwing
\* ValidationError, with no I/O done; the violation reported is the one of
\* the paths, also when the call has more than 10 keys or a key that is too
\* long or contains a comma.  No call without paths is ever past the
\* validation.
C13_EmptyPathsFirst ==
    [][\A p \in Procs :
        /\ (Starts(p) /\ Len(paths'[p]) = 0) =>
              /\ pc'[p] = "done"
              /\ outcome'[p] = "ValidationError"
              /\ message'[p] = "paths"
              /\ NoIO(p)
        /\ pc'[p] \notin {"idle", "done"} => Len(paths'[p]) > 0
      ]_vars

\* A save without paths and with a comma in its key, and a restore without
\* paths and with 11 keys, have both thrown the ValidationError of the paths.
C13_Witness ==
    \E p \in Procs, q \in Procs :
        /\ IsSave(p) /\ Len(paths[p]) = 0 /\ BadKey(Key(p))
        /\ pc[p] = "done" /\ message[p] = "paths"
        /\ IsRestore(q) /\ Len(paths[q]) = 0 /\ Len(keys[q]) > MaxKeys
        /\ pc[q] = "done" /\ message[q] = "paths"

\* The entry directory d holds the archive file, a regular file.
RegularArchive(d) ==
    /\ d \in DOMAIN store
    /\ d # EmptyKey
    /\ store[d].kind = "file"

\* The entries whose name starts with k and that hold a regular archive.
Survivors(k) == {d \in DOMAIN store : StartsWith(d, k) /\ RegularArchive(d)}

\* The i-th key of p is the winning key: the first with a surviving entry.
Winning(p, i) ==
    /\ Survivors(keys[p][i]) # {}
    /\ \A j \in 1..(i - 1) : Survivors(keys[p][j]) = {}

\* C14: tie-break among the candidates of one key.  The archive that the
\* scan of restoreCache chooses is, among the surviving entries of the
\* winning key, one of the greatest modification time; the call keeps that
\* choice until it extracts, extracts that archive and returns the winning
\* key.
C14_TieBreak ==
    [][\A p \in Procs :
        /\ Scans(p) =>
              \A i \in 1..Len(keys[p]) :
                  Winning(p, i) =>
                      /\ archivePath'[p] \in Survivors(keys[p][i])
                      /\ \A d \in Survivors(keys[p][i]) :
                            store[d].mtime <= store[archivePath'[p]].mtime
                      /\ matchedKey'[p] = keys[p][i]
        /\ (IsRestore(p) /\ pc[p] = "extract") =>
              (archivePath'[p] = archivePath[p] /\ matchedKey'[p] = matchedKey[p])
        /\ Extracts(p) =>
              /\ work' = store[archivePath[p]].data
              /\ outcome'[p] = "returned"
      ]_vars

\* A restore whose primary key has no entry has extracted, of the two or
\* more surviving entries of its fallback key, one that is more recent than
\* another, and has returned the fallback key.
C14_Witness ==
    \E p \in Procs :
        /\ IsRestore(p) /\ pc[p] = "done" /\ outcome[p] = "returned"
        /\ Len(keys[p]) = 2
        /\ Survivors(keys[p][1]) = {}
        /\ matchedKey[p] = keys[p][2]
        /\ archivePath[p] \in Survivors(keys[p][2])
        /\ work = store[archivePath[p]].data
        /\ \A d \in Survivors(keys[p][2]) :
              store[d].mtime <= store[archivePath[p]].mtime
        /\ \E d \in Survivors(keys[p][2]) :
              store[d].mtime < store[archivePath[p]].mtime

\* C15: candidate filtering.  The entry that the scan of restoreCache
\* selects holds the archive as a regular file, and so does the entry of
\* every restoreCache that is about to extract.  A key whose matching
\* directories all lack the archive, or hold it as something else than a
\* regular file, is not the matched key: the scan goes on and matches the
\* first later key that has a surviving entry.
C15_CandidateFiltering ==
    [][\A p \in Procs :
        /\ Scans(p) =>
              /\ pc'[p] = "extract" => RegularArchive(archivePath'[p])
              /\ \A i \in 1..Len(keys[p]) :
                    /\ (Survivors(keys[p][i]) = {} /\ pc'[p] = "extract") =>
                          matchedKey'[p] # keys[p][i]
                    /\ Winning(p, i) => matchedKey'[p] = keys[p][i]
        /\ (IsRestore(p) /\ pc'[p] = "extract") =>
              /\ archivePath'[p] \in DOMAIN store'
              /\ store'[archivePath'[p]].kind = "file"
      ]_vars

\* A restore has passed over its primary key, which a directory without the
\* archive and a directory with an archive that is no regular file match by
\* name, and has extracted the regular archive of its fallback key.
C15_Witness ==
    \E p \in Procs :
        /\ IsRestore(p) /\ pc[p] = "done" /\ outcome[p] = "returned"
        /\ Len(keys[p]) = 2
        /\ \E d \in DOMAIN store :
              StartsWith(d, keys[p][1]) /\ store[d].kind = "noarchive"
        /\ \E d \in DOMAIN store :
              StartsWith(d, keys[p][1]) /\ store[d].kind = "notfile"
        /\ Survivors(keys[p][1]) = {}
        /\ matchedKey[p] = keys[p][2]
        /\ RegularArchive(archivePath[p])

\* C16, as claimed: when a saveCache call that has reached the creation of
\* the archive finishes, its temporary archive no longer exists, and it has
\* returned 1 or -1.
C16_TempArchiveGone ==
    \A p \in Procs :
        (IsSave(p) /\ pc[p] = "done" /\ outcome[p] = "returned") =>
            (tmp[p] = "absent" /\ status[p] \in {1, -1})

\* C16, amended: temporary archive cleanup.  A saveCache call that has
\* reached the creation of the archive finishes only through its finally
\* block, whatever the outcome.  When it finishes, the temporary archive no
\* longer exists unless deleting it failed and the failure was logged; in
\* both cases the call returns the status it had before the deletion, 1 or
\* -1, and throws nothing.
C16_TempArchiveCleanup ==
    [][\A p \in Procs :
        IsSave(p) =>
            /\ (pc[p] \in {"tar", "tarring", "store"} /\ pc'[p] # pc[p]) =>
                  pc'[p] \in {"tarring", "store", "cleanup"}
            /\ (pc[p] = "cleanup" /\ pc'[p] # "cleanup") =>
                  /\ pc'[p] = "done"
                  /\ tmp'[p] = "absent" \/ unlinkFailed'[p]
                  /\ unlinkFailed'[p] => tmp'[p] = tmp[p]
                  /\ status[p] \in {1, -1}
                  /\ status'[p] = status[p]
                  /\ outcome'[p] = "returned"
      ]_vars

\* One save has returned 1 although the deletion of its temporary archive
\* failed, and the archive is still there; another has returned -1 on a
\* reservation conflict, and its temporary archive is gone.
C16_Witness ==
    \E p \in Procs, q \in Procs :
        /\ IsSave(p) /\ pc[p] = "done" /\ outcome[p] = "returned"
        /\ status[p] = 1 /\ unlinkFailed[p] /\ tmp[p] = "complete"
        /\ IsSave(q) /\ pc[q] = "done" /\ outcome[q] = "returned"
        /\ status[q] = -1 /\ message[q] = "ReserveCacheError"
        /\ ~unlinkFailed[q] /\ tmp[q] = "absent"

\* C17: the store is append-only.  No step of any call removes an entry of
\* the store or changes what it holds; a step of a restoreCache call leaves
\* the whole store as it is, the extraction included; and an entry that
\* appears is the entry of the key of a saveCache call, added by the commit
\* of that call.
C17_AppendOnly ==
    [][/\ \A n \in DOMAIN store :
              n \in DOMAIN store' /\ store'[n] = store[n]
       /\ \A p \in Procs :
              (op'[p] = "restore" /\ (Starts(p) \/ pc'[p] # pc[p])) =>
                  store' = store
       /\ \A n \in DOMAIN store' \ DOMAIN store :
              \E p \in Procs :
                  /\ IsSave(p)
                  /\ pc[p] = "store" /\ pc'[p] = "cleanup"
                  /\ n = keys[p][1]
                  /\ DOMAIN store' = DOMAIN store \cup {n}
      ]_vars

\* A restore has extracted an archive, which is still in the store, after a
\* save has added its entry, next to the entry that was there from the start.
C17_Witness ==
    \E p \in Procs, q \in Procs :
        /\ IsRestore(p) /\ pc[p] = "done" /\ outcome[p] = "returned"
        /\ archivePath[p] \in DOMAIN store
        /\ work = store[archivePath[p]].data
        /\ IsSave(q) /\ status[q] = 1
        /\ store[Key(q)].data = id[q]
        /\ \E n \in DOMAIN store : n # Key(q) /\ store[n].data = PreData

\* C18: what restoreCache returns.  A restoreCache call that ends without
\* throwing returns undefined or its matchedKey, and the matchedKey it
\* returns is one of the keys of the call, [primaryKey, ...restoreKeys]: also
\* when the entry extracted has another name, which the key is a prefix of.
C18_ReturnsSuppliedKey ==
    \A p \in Procs :
        (/\ IsRestore(p)
         /\ pc[p] = "done"
         /\ outcome[p] \notin {"ValidationError", "Error"}) =>
            \/ outcome[p] = "undefined"
            \/ /\ outcome[p] = "returned"
               /\ \E i \in 1..Len(keys[p]) : matchedKey[p] = keys[p][i]

\* A restore has extracted an entry whose name is longer than the key that
\* matched it, and has returned that key.
C18_Witness ==
    \E p \in Procs :
        /\ IsRestore(p) /\ pc[p] = "done" /\ outcome[p] = "returned"
        /\ archivePath[p] # matchedKey[p]
        /\ StartsWith(archivePath[p], matchedKey[p])
        /\ work = store[archivePath[p]].data
        /\ \E i \in 1..Len(keys[p]) : matchedKey[p] = keys[p][i]

\* C19: what the status of saveCache means.  A saveCache call that has
\* returned has returned 1 or -1.  If it returned 1, the store holds under
\* its key the complete archive that this call built, as a regular file; if
\* it returned -1, no entry of the store holds an archive of this call.
C19_StatusMeansCommit ==
    \A p \in Procs :
        (IsSave(p) /\ pc[p] = "done" /\ outcome[p] = "returned") =>
            /\ status[p] \in {1, -1}
            /\ status[p] = 1 =>
                  /\ keys[p][1] \in DOMAIN store
                  /\ store[keys[p][1]].kind = "file"
                  /\ store[keys[p][1]].data = id[p]
                  /\ store[keys[p][1]].complete
            /\ status[p] = -1 =>
                  \A n \in DOMAIN store : store[n].data # id[p]

\* One save has returned 1 and its archive is in the store; another has
\* returned -1 after a failure that is no reservation conflict, and the
\* store has no entry for its key.
C19_Witness ==
    \E p \in Procs, q \in Procs :
        /\ IsSave(p) /\ pc[p] = "done" /\ outcome[p] = "returned"
        /\ status[p] = 1 /\ store[Key(p)].data = id[p]
        /\ IsSave(q) /\ pc[q] = "done" /\ outcome[q] = "returned"
        /\ status[q] = -1 /\ message[q] = "Error"
        /\ Key(q) \notin DOMAIN store

====
